---- MODULE Spec2Model ----
(***************************************************************************)
(* Model of the shielded pool of zeropoolnetwork/NEAR-pool.                *)
(*                                                                         *)
(* Part E, the on-chain state machine (pool-contract/src/lib.rs): the      *)
(* PrivateTxEngine contract with its four collections, its two verifying   *)
(* keys and its single mutating call transfer_and_update_root.             *)
(*                                                                         *)
(* The Groth16 pairing check is a host precompile.  It is modelled as an   *)
(* ideal, deterministic oracle: a proof is a value that attests exactly    *)
(* one (verifying key, public input vector) pair.  Which statements have a *)
(* proof is decided by the circuit behind the verifying key, which the     *)
(* contract neither contains nor inspects, so the submissions enumerated   *)
(* here carry proofs of arbitrary statements.                              *)
(*                                                                         *)
(* Part D, the client (pool-crypto/src/native/data.rs): ClientState with   *)
(* its Merkle tree of note hashes over a key-value store, and the          *)
(* transaction builder make_transaction_object.  Part C, the transfer      *)
(* circuit (pool-crypto/src/circuit/tx.rs), is the predicate c_transfer.   *)
(* Poseidon, the key derivations and the signature are ideal: terms that   *)
(* are equal only when built alike.                                        *)
(*                                                                         *)
(* The native note functions (pool-crypto/src/native/tx.rs), the codec of  *)
(* a note, its encryption and parse_delta, work on numbers and bytes.      *)
(*                                                                         *)
(* Specifications: Spec and SpecPool (the contract, without and with its   *)
(* queries), SpecTree (add_leaf in two steps, with a concurrent reader),   *)
(* SpecBuilder (add_leaf and make_transaction_object), SpecCircuit         *)
(* (c_transfer run on assignments, as the circuit's test does) and         *)
(* SpecNative (calls of the codec, encryption and delta functions).        *)
(***************************************************************************)
EXTENDS Integers, Sequences, FiniteSets, TLC

(***************************************************************************)
(* Program constants.                                                      *)
(***************************************************************************)
UTXO_IN == 6
UTXO_OUT == 2

(***************************************************************************)
(* Bounds of the model.                                                    *)
(***************************************************************************)
\* Root values offered in submissions are 0 .. MaxRoot.
MaxRoot == 1
\* A 256-bit word is scaled to U256Bytes bytes (32 in the source), and the
\* BN254 scalar modulus to FrModulus (about 0.189 of the word range).
U256Bytes == 2
FrModulus == 12391

(***************************************************************************)
(* Helpers on sequences.                                                   *)
(***************************************************************************)
RECURSIVE SumSeq(_)
SumSeq(s) == IF s = <<>> THEN 0 ELSE Head(s) + SumSeq(Tail(s))

\* Insert x into the ascending sequence s, keeping it ascending.
RECURSIVE InsertSorted(_, _)
InsertSorted(x, s) ==
    IF s = <<>> THEN <<x>>
    ELSE IF x <= Head(s) THEN <<x>> \o s
    ELSE <<Head(s)>> \o InsertSorted(x, Tail(s))

\* Vec::sort
RECURSIVE sort(_)
sort(s) == IF s = <<>> THEN <<>> ELSE InsertSorted(Head(s), sort(Tail(s)))

\* fn is_unique: clone, sort, compare neighbours.
is_unique(items) ==
    LET v == sort(items)
    IN  \A i \in 2..Len(v) : v[i - 1] # v[i]

(***************************************************************************)
(* near_sdk::collections::UnorderedSet, as its element vector              *)
(* (as_vector()): insertion order, no duplicates, nothing is ever removed. *)
(***************************************************************************)
contains(set, e) == \E i \in 1..Len(set) : set[i] = e

insert_noop(set, e) == set

insert_front(set, e) == IF contains(set, e) THEN set ELSE <<e>> \o set

insert(set, e) == IF contains(set, e) THEN set ELSE Append(set, e)

RECURSIVE insert_all(_, _)
insert_all(set, items) ==
    IF items = <<>> THEN set
    ELSE insert_all(insert(set, Head(items)), Tail(items))

(***************************************************************************)
(* Host primitives.                                                        *)
(***************************************************************************)
\* env::keccak256: a fixed function from byte vectors to U256Bytes-byte
\* digests.  The digest of <<0>> is below FrModulus as a little-endian
\* word, the digest of <<1>> is above it.
keccak256(msg) ==
    [i \in 1..U256Bytes |-> (131 * SumSeq(msg) + 7 * i + 11) % 256]

\* U256::try_from_slice: Borsh reads the word little-endian, unreduced.
RECURSIVE U256_try_from_slice(_)
U256_try_from_slice(bytes) ==
    IF bytes = <<>> THEN 0
    ELSE Head(bytes) + 256 * U256_try_from_slice(Tail(bytes))

\* The digest of msg reduced into the scalar field Fr.
keccak256_reduced(msg) == U256_try_from_slice(keccak256(msg)) % FrModulus

\* A proof attests one statement under one verifying key.
ProofFor(vkid, stmt) == [vk |-> vkid, input |-> stmt]

\* alt_bn128_groth16verify: the length check, then the pairing check.
\* "panic" stands for env::panic(b"Wrong input len.").
alt_bn128_groth16verify(vk, proof, input) ==
    IF vk.ic_len # Len(input) + 1 THEN "panic"
    ELSE IF proof.vk = vk.id /\ proof.input = input THEN "true"
    ELSE "false"

(***************************************************************************)
(* Part D, the client (pool-crypto/src/native/data.rs): ClientState over a *)
(* key-value store.  The store has one map per column; a DBTransaction is  *)
(* the sequence of its puts, and KeyValueDB::write applies a transaction   *)
(* as one step.                                                            *)
(***************************************************************************)
COL_DEFAULT == 0
COL_CELL == 1
COL_NOTE == 2

KEY_INITIALIZED == "initialized"
KEY_NUM_LEAVES == "num_leaves"

EmptyMap == [k \in {} |-> 0]

EmptyDb == [c \in {COL_DEFAULT, COL_CELL, COL_NOTE} |-> EmptyMap]

\* DBTransaction::put
tx_put(tx, col, key, value) ==
    Append(tx, [col |-> col, key |-> key, value |-> value])

db_put(d, op) ==
    [d EXCEPT ![op.col] =
        [k \in (DOMAIN @) \cup {op.key} |->
            IF k = op.key THEN op.value ELSE @[k]]]

\* A write that loses the puts of the inner tree cells.
RECURSIVE db_write_torn(_, _)
db_write_torn(d, tx) ==
    IF tx = <<>> THEN d
    ELSE IF Head(tx).col = COL_CELL /\ Head(tx).key[1] > 0
         THEN db_write_torn(d, Tail(tx))
         ELSE db_write_torn(db_put(d, Head(tx)), Tail(tx))

\* KeyValueDB::write: every put of the transaction, in order, or none.
RECURSIVE db_write(_, _)
db_write(d, tx) ==
    IF tx = <<>> THEN d ELSE db_write(db_put(d, Head(tx)), Tail(tx))

\* ClientState::new on a fresh store.
ClientInit_db ==
    db_write(EmptyDb,
             tx_put(tx_put(<<>>, COL_DEFAULT, KEY_INITIALIZED, 1),
                    COL_DEFAULT, KEY_NUM_LEAVES, 0))

(***************************************************************************)
(* State of PrivateTxEngine, and the observation of the last call.         *)
(***************************************************************************)
VARIABLES
    nullifier,       \* UnorderedSet<U256>
    root_history,    \* UnorderedSet<U256>
    utxo,            \* UnorderedSet<U256>
    message,         \* Vector<Vec<u8>>
    vk_tx,           \* VK
    vk_update_root,  \* VK
    result,          \* outcome of the last call: "ok", or the panic message
    accepted,        \* history: the submissions that returned true, in order
    everCurrent,     \* history: every value current_root() has ever had
    pc,              \* "idle", or "returned" while the caller reads the outcome
    last_replay,     \* the last call resubmitted an accepted submission
    last_memo_reduced, \* the last call's memo was its digest reduced into Fr
    last_failed,     \* the checks whose condition the last call did not meet
    db,              \* the client's key-value store, one map per column
    frame,           \* the client call in progress, with its DBTransaction
    leaves,          \* history: the (hash, note) of each completed add_leaf
    observed,        \* what the last read of a concurrent reader returned
    built,           \* what the last make_transaction_object returned
    cs,              \* the last run of c_transfer on a TestCS
    native           \* the last call of a codec or delta function

poolVars == <<nullifier, root_history, utxo, message, vk_tx, vk_update_root>>
clientVars == <<db, frame, leaves, observed, built>>
testVars == <<cs, native>>
vars == <<nullifier, root_history, utxo, message, vk_tx, vk_update_root,
          result, accepted, everCurrent, pc, last_replay,
          last_memo_reduced, last_failed, db, frame, leaves, observed, built,
          cs, native>>

\* The root of the empty tree, the only element of a fresh root history.
EmptyRoot == 0

\* The contract has no constructor: its state is written at deployment.
\* num_tx() = root_history.len() - 1 requires a non-empty history.

Init ==
    /\ nullifier = <<>>
    /\ root_history = <<EmptyRoot>>
    /\ utxo = <<>>
    /\ message = <<>>
    /\ vk_tx = [id |-> "transfer", ic_len |-> 3 + UTXO_IN + UTXO_OUT + 1]
    /\ vk_update_root = [id |-> "update_root", ic_len |-> 3 + UTXO_OUT + 1]
    /\ result = "none"
    /\ accepted = <<>>
    /\ everCurrent = {EmptyRoot}
    /\ pc = "idle"
    /\ last_replay = FALSE
    /\ last_memo_reduced = FALSE
    /\ last_failed = {}
    /\ db = ClientInit_db
    /\ frame = [at |-> "idle"]
    /\ leaves = <<>>
    /\ observed = <<>>
    /\ built = <<>>
    /\ cs = <<>>
    /\ native = <<>>

(***************************************************************************)
(* Read-only queries.                                                      *)
(***************************************************************************)
num_tx == Len(root_history) - 1

current_root == root_history[num_tx + 1]

is_nullifier_never(e) == FALSE

is_nullifier(e) == contains(nullifier, e)

is_utxo(e) == contains(utxo, e)

is_root_history_any(r) == TRUE

is_root_history(r) == contains(root_history, r)

(***************************************************************************)
(* TransferAndUpdateRoot                                                   *)
(***************************************************************************)
input_vec_transfer(txobj) ==
    <<txobj.root>> \o txobj.nullifier \o txobj.out_hash
        \o <<txobj.delta, txobj.memo>>

input_vec_update_root(txobj, pos) ==
    <<txobj.before_root, txobj.after_root, pos>> \o txobj.out_hash

(***************************************************************************)
(* transfer_and_update_root: the nine checks in source order.  The value   *)
(* is "ok" when the call reaches the commit, else the panic message.       *)
(***************************************************************************)
check_result_stale_first(transfer_proof, update_root_proof, txobj) ==
    IF current_root # txobj.before_root THEN "wrong current root"
    ELSE IF ~is_unique(txobj.nullifier)
        THEN "not unique nullifier in transaction"
    ELSE IF ~is_unique(txobj.out_hash) THEN "not unique utxo in transaction"
    ELSE IF \E i \in 1..UTXO_IN : is_nullifier(txobj.nullifier[i])
        THEN "not unique nullifier in history"
    ELSE IF \E i \in 1..UTXO_OUT : is_utxo(txobj.out_hash[i])
        THEN "not unique utxo in history"
    ELSE IF ~is_root_history(txobj.root) THEN "no root in history"
    ELSE IF txobj.memo # U256_try_from_slice(keccak256(txobj.message))
        THEN "wrong memo hash"
    ELSE IF alt_bn128_groth16verify(vk_tx, transfer_proof,
                input_vec_transfer(txobj)) # "true"
        THEN "wrong transfer snark check"
    ELSE IF alt_bn128_groth16verify(vk_update_root, update_root_proof,
                input_vec_update_root(txobj, num_tx * UTXO_OUT)) # "true"
        THEN "wrong update root snark check"
    ELSE "ok"

check_result(transfer_proof, update_root_proof, txobj) ==
    IF ~is_unique(txobj.nullifier) THEN "not unique nullifier in transaction"
    ELSE IF ~is_unique(txobj.out_hash) THEN "not unique utxo in transaction"
    ELSE IF \E i \in 1..UTXO_IN : is_nullifier(txobj.nullifier[i])
        THEN "not unique nullifier in history"
    ELSE IF \E i \in 1..UTXO_OUT : is_utxo(txobj.out_hash[i])
        THEN "not unique utxo in history"
    ELSE IF ~is_root_history(txobj.root) THEN "no root in history"
    ELSE IF txobj.memo # U256_try_from_slice(keccak256(txobj.message))
        THEN "wrong memo hash"
    ELSE IF current_root # txobj.before_root THEN "wrong current root"
    ELSE LET v1 == alt_bn128_groth16verify(vk_tx, transfer_proof,
                        input_vec_transfer(txobj))
         IN
         IF v1 = "panic" THEN "Wrong input len."
         ELSE IF v1 = "false" THEN "wrong transfer snark check"
         ELSE LET v2 == alt_bn128_groth16verify(vk_update_root,
                            update_root_proof,
                            input_vec_update_root(txobj, num_tx * UTXO_OUT))
              IN
              IF v2 = "panic" THEN "Wrong input len."
              ELSE IF v2 = "false" THEN "wrong update root snark check"
              ELSE "ok"

\* The condition of the k-th check of transfer_and_update_root read on its
\* own, whether or not the call reaches the check.
check_fails(k, transfer_proof, update_root_proof, txobj) ==
    CASE k = 1 -> ~is_unique(txobj.nullifier)
      [] k = 2 -> ~is_unique(txobj.out_hash)
      [] k = 3 -> \E i \in 1..UTXO_IN : is_nullifier(txobj.nullifier[i])
      [] k = 4 -> \E i \in 1..UTXO_OUT : is_utxo(txobj.out_hash[i])
      [] k = 5 -> ~is_root_history(txobj.root)
      [] k = 6 -> txobj.memo # U256_try_from_slice(keccak256(txobj.message))
      [] k = 7 -> current_root # txobj.before_root
      [] k = 8 -> alt_bn128_groth16verify(vk_tx, transfer_proof,
                        input_vec_transfer(txobj)) # "true"
      [] k = 9 -> alt_bn128_groth16verify(vk_update_root, update_root_proof,
                        input_vec_update_root(txobj, num_tx * UTXO_OUT))
                    # "true"

\* The message each check panics with.
check_message(k) ==
    CASE k = 1 -> "not unique nullifier in transaction"
      [] k = 2 -> "not unique utxo in transaction"
      [] k = 3 -> "not unique nullifier in history"
      [] k = 4 -> "not unique utxo in history"
      [] k = 5 -> "no root in history"
      [] k = 6 -> "wrong memo hash"
      [] k = 7 -> "wrong current root"
      [] k = 8 -> "wrong transfer snark check"
      [] k = 9 -> "wrong update root snark check"

\* The call goes on to its writes only when no check has panicked.
commits_early(r) == r \in {"ok", "wrong update root snark check"}

commits(r) == r = "ok"

(***************************************************************************)
(* The submissions offered to the contract.                                *)
(***************************************************************************)
RootVals == 0..MaxRoot

Window(width, k) == [i \in 1..width |-> width * k + i]

\* Arrays of distinct values: two disjoint windows; and one array that
\* repeats a value.
WindowIds == {0, 1}

NullifierInputs ==
    { Window(UTXO_IN, k) : k \in WindowIds }
        \cup { [Window(UTXO_IN, 0) EXCEPT ![UTXO_IN] = 1] }

OutHashInputs ==
    { Window(UTXO_OUT, k) : k \in WindowIds }
        \cup { [Window(UTXO_OUT, 0) EXCEPT ![UTXO_OUT] = 1] }

DeltaVals == {0}

Messages == { <<0>>, <<1>> }

\* The memo a submitter may send for a message: the digest read as a
\* little-endian word, or that word reduced into Fr.
MemoInputs(msg) ==
    { U256_try_from_slice(keccak256(msg)), keccak256_reduced(msg) }

TxObjsFor(m) ==
    { [root |-> r, nullifier |-> n, out_hash |-> o, delta |-> d, memo |-> mm,
       message |-> m, before_root |-> b, after_root |-> a] :
        r \in RootVals, n \in NullifierInputs, o \in OutHashInputs,
        d \in DeltaVals, mm \in MemoInputs(m),
        b \in RootVals, a \in RootVals }

TxObjs == UNION { TxObjsFor(m) : m \in Messages }

\* Proofs of the transfer statement of txobj, and of the statement with the
\* last two signals exchanged.
TransferProofs(txobj) ==
    { ProofFor("transfer",
               <<txobj.root>> \o txobj.nullifier \o txobj.out_hash
                   \o <<txobj.delta, txobj.memo>>),
      ProofFor("transfer",
               <<txobj.root>> \o txobj.nullifier \o txobj.out_hash
                   \o <<txobj.memo, txobj.delta>>) }

\* Proofs of the update-root statement of txobj at each leaf position.
UpdateRootProofs(txobj) ==
    { ProofFor("update_root",
               <<txobj.before_root, txobj.after_root, UTXO_OUT * k>>
                   \o txobj.out_hash) : k \in WindowIds }

(***************************************************************************)
(* The call.  A panic aborts the call before any write.  Calls are totally *)
(* ordered by the host: the next one starts after this one has returned.   *)
(***************************************************************************)
transfer_and_update_root ==
    /\ pc = "idle"
    /\ pc' = "returned"
    /\ \E txobj \in TxObjs :
       \E transfer_proof \in TransferProofs(txobj) :
       \E update_root_proof \in UpdateRootProofs(txobj) :
        LET r == check_result(transfer_proof, update_root_proof, txobj)
            call == [txobj |-> txobj,
                     transfer_proof |-> transfer_proof,
                     update_root_proof |-> update_root_proof]
        IN
        /\ result' = r
        /\ last_replay' = (\E i \in 1..Len(accepted) : accepted[i] = call)
        /\ last_memo_reduced' =
                (txobj.memo = keccak256_reduced(txobj.message))
        /\ last_failed' =
                { k \in 1..9 :
                    check_fails(k, transfer_proof, update_root_proof, txobj) }
        /\ IF commits(r)
           THEN /\ nullifier' = insert_all(nullifier, txobj.nullifier)
                /\ utxo' = insert_all(utxo, txobj.out_hash)
                /\ message' = Append(message, txobj.message)
                /\ root_history' = insert(root_history, txobj.after_root)
                /\ accepted' = Append(accepted, call)
                /\ everCurrent' = everCurrent \cup {current_root'}
                /\ UNCHANGED <<vk_tx, vk_update_root>>
           ELSE UNCHANGED <<poolVars, accepted, everCurrent>>
    /\ UNCHANGED <<clientVars, testVars>>

\* The caller has read the outcome; the contract awaits the next call.
finish_call ==
    /\ pc = "returned"
    /\ pc' = "idle"
    /\ result' = "none"
    /\ last_replay' = FALSE
    /\ last_memo_reduced' = FALSE
    /\ last_failed' = {}
    /\ UNCHANGED <<poolVars, accepted, everCurrent>>
    /\ UNCHANGED <<clientVars, testVars>>

Next == transfer_and_update_root \/ finish_call

Spec == Init /\ [][Next]_vars

(***************************************************************************)
(* Vocabulary of the properties.                                           *)
(***************************************************************************)
Accepts == Len(accepted') = Len(accepted) + 1

LastAccepted == accepted[Len(accepted)]

InHistory(r) == \E i \in DOMAIN root_history : root_history[i] = r

InNullifierSet(e) == \E i \in DOMAIN nullifier : nullifier[i] = e

InCommitmentSet(e) == \E i \in DOMAIN utxo : utxo[i] = e

Submissions ==
    UNION { { [txobj |-> t, transfer_proof |-> tp, update_root_proof |-> up] :
                tp \in TransferProofs(t), up \in UpdateRootProofs(t) } :
            t \in TxObjs }

Outcome(c) == check_result(c.transfer_proof, c.update_root_proof, c.txobj)

\* The public inputs as the acceptance procedure lists them.
TransferSignals(t) ==
    <<t.root>> \o t.nullifier \o t.out_hash \o <<t.delta, t.memo>>

UpdateRootSignals(t, leaf_position) ==
    <<t.before_root, t.after_root, leaf_position>> \o t.out_hash

(***************************************************************************)
(* C1.  A call of transfer_and_update_root that is rejected, at whichever  *)
(* check, leaves the nullifier set, the commitment set, the root history,  *)
(* the message log and both verifying keys as they were.                   *)
(***************************************************************************)
C1_RejectedCallChangesNothing ==
    [][(pc = "idle" /\ pc' = "returned" /\ result' # "ok")
          => UNCHANGED poolVars]_vars

C1_Witness ==
    /\ Len(accepted) > 0
    /\ result = "wrong update root snark check"

(***************************************************************************)
(* C2.  Over the whole history of accepted transactions all nullifiers are *)
(* pairwise distinct and all commitments are pairwise distinct, and each   *)
(* collection holds exactly those values, once each.                       *)
(***************************************************************************)
C2_NoValueAcceptedTwice ==
    /\ \A i, j \in 1..Len(accepted) : \A k, l \in 1..UTXO_IN :
          (i # j \/ k # l) =>
              accepted[i].txobj.nullifier[k] # accepted[j].txobj.nullifier[l]
    /\ \A i, j \in 1..Len(accepted) : \A k, l \in 1..UTXO_OUT :
          (i # j \/ k # l) =>
              accepted[i].txobj.out_hash[k] # accepted[j].txobj.out_hash[l]
    /\ \A i, j \in DOMAIN nullifier : i # j => nullifier[i] # nullifier[j]
    /\ \A i, j \in DOMAIN utxo : i # j => utxo[i] # utxo[j]

C2_Witness ==
    /\ Len(accepted) >= 2
    /\ result = "not unique nullifier in history"

(***************************************************************************)
(* C3.  The root history has one element more than there are accepted      *)
(* transactions, whatever after_root they carried.                         *)
(***************************************************************************)
C3_HistoryCountsAccepted == Len(root_history) = 1 + Len(accepted)

(***************************************************************************)
(* C4.  The commitment set holds OUT * num_tx values, the nullifier set    *)
(* IN * num_tx values and the message log num_tx messages, where num_tx =  *)
(* |root_history| - 1.                                                     *)
(***************************************************************************)
C4_CollectionSizes ==
    /\ Len(utxo) = UTXO_OUT * (Len(root_history) - 1)
    /\ Len(nullifier) = UTXO_IN * (Len(root_history) - 1)
    /\ Len(message) = Len(root_history) - 1

(***************************************************************************)
(* C5.  A submission whose before_root differs from the current root is    *)
(* rejected; and when a transaction is accepted, every other submission    *)
(* that was acceptable before it is rejected after it.                     *)
(***************************************************************************)
StaleRejected ==
    \A c \in Submissions :
        c.txobj.before_root # root_history[Len(root_history)]
            => Outcome(c) # "ok"

C5_StaleAfterAnyAcceptance ==
    [][Accepts =>
          /\ StaleRejected
          /\ StaleRejected'
          /\ \A c \in Submissions :
                (c # accepted'[Len(accepted')] /\ Outcome(c) = "ok")
                    => Outcome(c)' # "ok"]_vars

(***************************************************************************)
(* C6.  Replay resistance: a call that resubmits an accepted (transfer     *)
(* proof, update-root proof, txobj) triple, at any later point, is         *)
(* rejected and changes nothing.                                           *)
(***************************************************************************)
C6_ReplayRejected ==
    [][last_replay' => (result' # "ok" /\ UNCHANGED poolVars)]_vars

C6_Witness ==
    /\ last_replay
    /\ Len(accepted) >= 2

(***************************************************************************)
(* C7.  A transaction is accepted only if its root is in the root history  *)
(* at the time of the call, and every root that ever was the current root  *)
(* is in the history, so it passes that check.                             *)
(***************************************************************************)
C7_RootMustBeInHistory ==
    [][/\ Accepts => InHistory(accepted'[Len(accepted')].txobj.root)
       /\ \A r \in everCurrent' : InHistory(r)']_vars

\* An accepted transaction whose root was an older root, not the current.
C7_Witness ==
    /\ Len(accepted) >= 2
    /\ LastAccepted.txobj.root # LastAccepted.txobj.before_root

(***************************************************************************)
(* C8.  After an accepted transaction the current root is its after_root,  *)
(* and the root history lists the after_roots in acceptance order after    *)
(* the initial root.                                                       *)
(***************************************************************************)
C8_HistoryInAcceptanceOrder ==
    Len(accepted) > 0 =>
        /\ current_root = LastAccepted.txobj.after_root
        /\ Len(root_history) = Len(accepted) + 1
        /\ \A i \in 1..Len(accepted) :
              i + 1 <= Len(root_history)
                  => root_history[i + 1] = accepted[i].txobj.after_root

(***************************************************************************)
(* C9.  Every accepted submission carries a transfer proof that verifies   *)
(* against vk_transfer with the signals [root, nullifiers, out_hashes,     *)
(* delta, memo], and an update-root proof that verifies against            *)
(* vk_update_root with [before_root, after_root, leaf_position,            *)
(* out_hashes], where leaf_position is OUT times the number of             *)
(* transactions accepted before it.                                        *)
(***************************************************************************)
C9_BothProofsVerified ==
    \A i \in 1..Len(accepted) :
        /\ alt_bn128_groth16verify(vk_tx, accepted[i].transfer_proof,
                TransferSignals(accepted[i].txobj)) = "true"
        /\ alt_bn128_groth16verify(vk_update_root,
                accepted[i].update_root_proof,
                UpdateRootSignals(accepted[i].txobj, UTXO_OUT * (i - 1)))
              = "true"

(***************************************************************************)
(* C10.  A call whose memo equals keccak256(message) reduced into Fr is     *)
(* not rejected with 'wrong memo hash', and a call whose memo differs from *)
(* that value gets no further than the memo check.                         *)
(***************************************************************************)
PastMemoCheck ==
    {"wrong current root", "wrong transfer snark check",
     "wrong update root snark check", "Wrong input len.", "ok"}

C10_MemoCheckedAgainstReducedDigest ==
    /\ result = "wrong memo hash" => ~last_memo_reduced
    /\ result \in PastMemoCheck => last_memo_reduced

(***************************************************************************)
(* The read-only queries of the contract.  Each takes &self: it computes   *)
(* its answer from the state and writes nothing.                           *)
(***************************************************************************)
\* for i in from .. to: the elements at the indexes that exist.
vector_slice(vec, from, to) ==
    LET hi == IF to < Len(vec) THEN to ELSE Len(vec)
    IN IF from >= hi THEN <<>> ELSE SubSeq(vec, from + 1, hi)

get_nullifier_slice(from, to) == vector_slice(nullifier, from, to)

get_utxo_slice(from, to) == vector_slice(utxo, from, to)

get_root_history_slice(from, to) == vector_slice(root_history, from, to)

get_message_slice(from, to) == vector_slice(message, from, to)

\* Arguments offered to the queries.
QueryValues == 0..2

QueryIndexes == {0, 1, 2, 13}

\* The serialized answer of each query, with the call it answers.
slice_answer(name, from, to, value) ==
    name \o "(" \o ToString(from) \o ", " \o ToString(to) \o ") = "
        \o ToString(value)

query_answers ==
    { "num_tx() = " \o ToString(num_tx),
      "current_root() = " \o ToString(current_root) }
      \cup { "is_nullifier(" \o ToString(e) \o ") = "
                \o ToString(is_nullifier(e)) : e \in QueryValues }
      \cup { "is_utxo(" \o ToString(e) \o ") = "
                \o ToString(is_utxo(e)) : e \in QueryValues }
      \cup { "is_root_history(" \o ToString(e) \o ") = "
                \o ToString(is_root_history(e)) : e \in QueryValues }
      \cup { slice_answer("get_nullifier_slice", a, b,
                          get_nullifier_slice(a, b)) :
                a \in QueryIndexes, b \in QueryIndexes }
      \cup { slice_answer("get_utxo_slice", a, b, get_utxo_slice(a, b)) :
                a \in QueryIndexes, b \in QueryIndexes }
      \cup { slice_answer("get_root_history_slice", a, b,
                          get_root_history_slice(a, b)) :
                a \in QueryIndexes, b \in QueryIndexes }
      \cup { slice_answer("get_message_slice", a, b,
                          get_message_slice(a, b)) :
                a \in QueryIndexes, b \in QueryIndexes }

\* A view call: the answer is returned to the caller, the state stays.
pool_query ==
    /\ pc = "idle"
    /\ pc' = "returned"
    /\ \E answer \in query_answers : result' = answer
    /\ last_replay' = FALSE
    /\ last_memo_reduced' = FALSE
    /\ last_failed' = {}
    /\ UNCHANGED <<poolVars, accepted, everCurrent>>
    /\ UNCHANGED <<clientVars, testVars>>

NextPool == transfer_and_update_root \/ pool_query \/ finish_call

SpecPool == Init /\ [][NextPool]_vars

(***************************************************************************)
(* C12.  When transfer_and_update_root accepts a submission, afterwards    *)
(* each of its IN nullifiers is in the nullifier set, each of its OUT      *)
(* commitments is in the commitment set, its message is the last entry of  *)
(* the message log (so the i-th entry is the message of the i-th accepted  *)
(* transaction), its after_root has been appended to the root history, and *)
(* nothing else has changed.                                               *)
(***************************************************************************)
C12_AcceptanceEffect ==
    [][Accepts =>
          LET t == accepted'[Len(accepted')].txobj
          IN
          /\ \A k \in 1..UTXO_IN : contains(nullifier', t.nullifier[k])
          /\ \A k \in 1..UTXO_OUT : contains(utxo', t.out_hash[k])
          /\ message' = Append(message, t.message)
          /\ \A i \in 1..Len(accepted') :
                message'[i] = accepted'[i].txobj.message
          /\ root_history' = Append(root_history, t.after_root)
          /\ nullifier' = nullifier \o t.nullifier
          /\ utxo' = utxo \o t.out_hash
          /\ UNCHANGED <<vk_tx, vk_update_root>>]_vars

(***************************************************************************)
(* C13.  Across any sequence of pool calls the nullifier set, the          *)
(* commitment set, the root history and the message log only grow at the   *)
(* end: an element once present stays at its index, so a slice over        *)
(* indexes that exist does not change.  Only an accepted                   *)
(* transfer_and_update_root changes them, the two verifying keys never     *)
(* change, and the read-only queries change nothing.                       *)
(***************************************************************************)
IsPrefix(s, t) == Len(s) <= Len(t) /\ SubSeq(t, 1, Len(s)) = s

C13_AppendOnlyAndFramed ==
    [][/\ IsPrefix(nullifier, nullifier')
       /\ IsPrefix(utxo, utxo')
       /\ IsPrefix(root_history, root_history')
       /\ IsPrefix(message, message')
       /\ \A a \in QueryIndexes : \A b \in QueryIndexes :
            /\ b <= Len(nullifier) =>
                 get_nullifier_slice(a, b)' = get_nullifier_slice(a, b)
            /\ b <= Len(utxo) =>
                 get_utxo_slice(a, b)' = get_utxo_slice(a, b)
            /\ b <= Len(root_history) =>
                 get_root_history_slice(a, b)' = get_root_history_slice(a, b)
            /\ b <= Len(message) =>
                 get_message_slice(a, b)' = get_message_slice(a, b)
       /\ ~Accepts => UNCHANGED poolVars
       /\ UNCHANGED <<vk_tx, vk_update_root>>]_vars

\* A query answered after two transactions were accepted: a slice that
\* reaches beyond the end of the root history.
C13_Witness ==
    /\ Len(accepted) >= 2
    /\ pc = "returned"
    /\ result = slice_answer("get_root_history_slice", 1, 13,
                             get_root_history_slice(1, 13))

(***************************************************************************)
(* The client's parameters, field elements and hashes.                     *)
(*                                                                         *)
(* A field element is a term: num(n) for the number n, or the application  *)
(* of a hash to terms.  Poseidon is modelled as an ideal hash: two         *)
(* applications are equal only when their salts and inputs are equal.      *)
(***************************************************************************)
\* P::IN and P::H are scaled down (6 and 32 in the source).
P_IN == 2
P_OUT == 2
P_H == 2

num(n) == <<"num", n>>

poseidon(inputs) == <<"poseidon", inputs>>

poseidon_with_salt(inputs, seed) == <<"poseidon_with_salt", seed, inputs>>

SEED_DIVERSIFIER == "diversifier"
SEED_DECRYPTION_KEY == "decryption_key"
SEED_NOTE_HASH == "note_hash"
SEED_NULLIFIER == "nullifier"
SEED_TX_HASH == "tx_hash"

\* dk = toFs(Poseidon(xsk; DK))
derive_key_dk(xsk) ==
    <<"into_other", poseidon_with_salt(<<xsk>>, SEED_DECRYPTION_KEY)>>

\* pk_d = x-coordinate of dk * FromScalar(Poseidon(d; DIVERSIFIER))
derive_key_pk_d(d, dk) ==
    <<"mul_x", poseidon_with_salt(<<d>>, SEED_DIVERSIFIER), dk>>

note_hash(note) ==
    poseidon_with_salt(<<num(note.d), note.pk_d, num(note.v), num(note.st)>>,
                       SEED_NOTE_HASH)

nullfifier(hash, xsk) == poseidon_with_salt(<<hash, xsk>>, SEED_NULLIFIER)

\* The wallet's key and the keys of another user.
self_xsk == <<"xsk", "self">>
self_dk == derive_key_dk(self_xsk)
other_dk == derive_key_dk(<<"xsk", "other">>)

\* Every level defaulting to the empty leaf.
default_cell_value_leaf(i) == num(0)

\* default_cell_value[i]: the root of an empty subtree of height i.
RECURSIVE default_cell_value(_)
default_cell_value(i) ==
    IF i = 0 THEN num(0)
    ELSE poseidon(<<default_cell_value(i - 1), default_cell_value(i - 1)>>)

(***************************************************************************)
(* The compressed note codec.  Bytes are numbers below 256; a field        *)
(* element is serialized as num_size little-endian bytes.  The chunk       *)
(* widths [10, 32, 8, 10] of the source are scaled to one byte for d, v    *)
(* and st and to the whole field element for pk_d.                         *)
(***************************************************************************)
RECURSIVE bit_length(_)
bit_length(n) == IF n = 0 THEN 0 ELSE 1 + bit_length(n \div 2)

\* T::NUM_BITS
NUM_BITS == bit_length(FrModulus - 1)

\* (T::NUM_BITS as usize - 1) / 8 + 1
num_size == (NUM_BITS - 1) \div 8 + 1

NOTE_CHUNKS == <<1, num_size, 1, 1>>

\* Num::serialize and Num::deserialize
Num_serialize(x) == [i \in 1..num_size |-> (x \div (256 ^ (i - 1))) % 256]

RECURSIVE from_bytes_le(_)
from_bytes_le(bytes) ==
    IF bytes = <<>> THEN 0 ELSE Head(bytes) + 256 * from_bytes_le(Tail(bytes))

Num_deserialize(bytes) ==
    [err |-> from_bytes_le(bytes) >= FrModulus, value |-> from_bytes_le(bytes)]

\* A compression that cuts every element to its chunk without looking at
\* the bytes it drops.
RECURSIVE to_compressed_cut(_, _, _, _, _)
to_compressed_cut(buf, size, chunks, i, cur) ==
    IF i = Len(chunks) THEN [err |-> FALSE, bytes |-> cur]
    ELSE to_compressed_cut(buf, size, chunks, i + 1,
            cur \o SubSeq(buf, size * i + 1, size * i + chunks[i + 1]))

\* The loop of to_compressed from chunk i on (i counted from 0).
RECURSIVE to_compressed_from(_, _, _, _, _)
to_compressed_from(buf, size, chunks, i, cur) ==
    IF i = Len(chunks) THEN [err |-> FALSE, bytes |-> cur]
    ELSE LET c == chunks[i + 1]
         IN IF \E k \in (size * i + c + 1)..(size * i + size) : buf[k] # 0
            THEN [err |-> TRUE, bytes |-> <<>>]
            ELSE to_compressed_from(buf, size, chunks, i + 1,
                    cur \o SubSeq(buf, size * i + 1, size * i + c))

to_compressed(buf, size, chunks) ==
    IF Len(buf) % size # 0 \/ Len(buf) \div size # Len(chunks)
    THEN [err |-> TRUE, bytes |-> <<>>]
    ELSE to_compressed_from(buf, size, chunks, 0, <<>>)

\* The loop of to_decompressed from chunk i on; cur is the read position.
RECURSIVE to_decompressed_from(_, _, _, _, _)
to_decompressed_from(buf, size, chunks, i, res) ==
    IF i = Len(chunks) THEN res
    ELSE LET c == chunks[i + 1]
             cur == SumSeq(SubSeq(chunks, 1, i))
         IN to_decompressed_from(buf, size, chunks, i + 1,
                res \o SubSeq(buf, cur + 1, cur + c)
                    \o [k \in 1..(size - c) |-> 0])

to_decompressed(buf, size, chunks) ==
    IF Len(buf) # SumSeq(chunks)
    THEN [err |-> TRUE, bytes |-> <<>>]
    ELSE [err |-> FALSE,
          bytes |-> to_decompressed_from(buf, size, chunks, 0, <<>>)]

\* BorshSerialize for Note: the bytes the writer received, none on error.
Note_serialize(note) ==
    to_compressed(Num_serialize(note.d) \o Num_serialize(note.pk_d)
                      \o Num_serialize(note.v) \o Num_serialize(note.st),
                  num_size, NOTE_CHUNKS)

\* BorshDeserialize for Note: the note and the rest of the buffer.
Note_deserialize(buf) ==
    LET note_size == SumSeq(NOTE_CHUNKS)
        none == [err |-> TRUE, note |-> <<>>, rest |-> buf]
    IN IF Len(buf) < note_size THEN none
       ELSE LET data == to_decompressed(SubSeq(buf, 1, note_size), num_size,
                                        NOTE_CHUNKS)
                at(k) == Num_deserialize(
                            SubSeq(data.bytes, num_size * (k - 1) + 1,
                                   num_size * k))
            IN IF data.err \/ \E k \in 1..4 : at(k).err THEN none
               ELSE [err |-> FALSE,
                     note |-> <<[d |-> at(1).value, pk_d |-> at(2).value,
                                 v |-> at(3).value, st |-> at(4).value]>>,
                     rest |-> SubSeq(buf, note_size + 1, Len(buf))]

(***************************************************************************)
(* ClientState: the Merkle tree of note hashes and the owned notes.        *)
(***************************************************************************)
get_cell(pos) ==
    IF pos \in DOMAIN db[COL_CELL] THEN db[COL_CELL][pos]
    ELSE default_cell_value(pos[1])

set_cell(tx, pos, v) == tx_put(tx, COL_CELL, pos, v)

\* The stored form of a note of the wallet: d, v and st as the bytes of
\* their chunks; pk_d, whose chunk is the whole element, as the element.
chunk_to_vec(x, c) == to_compressed(Num_serialize(x), num_size, <<c>>)

chunk_from_slice(bytes, c) ==
    Num_deserialize(to_decompressed(bytes, num_size, <<c>>).bytes).value

\* v.try_to_vec(): err when an element does not fit its chunk.
note_try_to_vec(note) ==
    LET d == chunk_to_vec(note.d, NOTE_CHUNKS[1])
        v == chunk_to_vec(note.v, NOTE_CHUNKS[3])
        st == chunk_to_vec(note.st, NOTE_CHUNKS[4])
    IN [err |-> d.err \/ v.err \/ st.err,
        stored |-> [d |-> d.bytes, pk_d |-> note.pk_d, v |-> v.bytes,
                    st |-> st.bytes]]

\* <Note>::try_from_slice(&v).unwrap() of a stored note.
note_try_from_slice(stored) ==
    [d |-> chunk_from_slice(stored.d, NOTE_CHUNKS[1]),
     pk_d |-> stored.pk_d,
     v |-> chunk_from_slice(stored.v, NOTE_CHUNKS[3]),
     st |-> chunk_from_slice(stored.st, NOTE_CHUNKS[4])]

\* Option<Note>: <<>> is None, <<n>> is Some(n).
get_note(pos) ==
    IF pos \in DOMAIN db[COL_NOTE]
    THEN <<note_try_from_slice(db[COL_NOTE][pos])>>
    ELSE <<>>

set_note(tx, pos, v) == tx_put(tx, COL_NOTE, pos, note_try_to_vec(v).stored)

gen_num_leaves == db[COL_DEFAULT][KEY_NUM_LEAVES]

set_num_leaves(tx, v) == tx_put(tx, COL_DEFAULT, KEY_NUM_LEAVES, v)

\* The loop of update_merkle_path from level i on; pos is the index at
\* level i, root the value of that cell.
RECURSIVE update_merkle_path_from(_, _, _, _)
update_merkle_path_from(tx, i, pos, root) ==
    IF i = P_H THEN tx
    ELSE LET parent ==
                 IF pos % 2 = 1
                 THEN poseidon(<<get_cell(<<i, pos - 1>>), root>>)
                 ELSE poseidon(<<root, get_cell(<<i, pos + 1>>)>>)
         IN update_merkle_path_from(
                set_cell(tx, <<i + 1, pos \div 2>>, parent),
                i + 1, pos \div 2, parent)

update_merkle_path(tx, pos, value) ==
    update_merkle_path_from(set_cell(tx, <<0, pos>>, value), 0, pos, value)

xor_none(x) == x

\* x ^ 1
xor_one(x) == IF x % 2 = 0 THEN x + 1 ELSE x - 1

get_merkle_proof(pos) ==
    [sibling |-> [i \in 1..P_H |->
                     get_cell(<<i - 1, xor_one(pos \div (2 ^ (i - 1)))>>)],
     path |-> [i \in 1..P_H |-> (pos \div (2 ^ (i - 1))) % 2 = 1]]

\* set_note unwraps the result of try_to_vec: add_leaf panics, before it
\* writes, on a note that has no stored form.
add_leaf_panics(note) == Len(note) = 1 /\ note_try_to_vec(note[1]).err

\* The DBTransaction add_leaf builds before it writes.
add_leaf_tx(hash, note) ==
    LET num_leaves == gen_num_leaves
        tx1 == update_merkle_path(<<>>, num_leaves, hash)
        tx2 == IF Len(note) = 1 THEN set_note(tx1, num_leaves, note[1])
               ELSE tx1
    IN set_num_leaves(tx2, num_leaves + 1)

\* get_note_list: the note column in key order, as (position, note) pairs.
RECURSIVE note_list_from(_)
note_list_from(pos) ==
    IF \A k \in DOMAIN db[COL_NOTE] : k < pos THEN <<>>
    ELSE IF pos \in DOMAIN db[COL_NOTE]
         THEN <<[pos |-> pos,
                 note |-> note_try_from_slice(db[COL_NOTE][pos])]>>
                  \o note_list_from(pos + 1)
         ELSE note_list_from(pos + 1)

get_note_list == note_list_from(0)

total_balance ==
    LET list == get_note_list
    IN SumSeq([i \in 1..Len(list) |-> list[i].note.v])

(***************************************************************************)
(* The calls offered to the client's tree.                                 *)
(***************************************************************************)
NoteVals == {1, 2, 5}

\* A note of the wallet, and a note of another user.
OwnNote(v) ==
    [d |-> 1, pk_d |-> derive_key_pk_d(num(1), self_dk), v |-> v, st |-> 1]

ForeignNote ==
    [d |-> 2, pk_d |-> derive_key_pk_d(num(2), other_dk), v |-> 3, st |-> 1]

\* A note of the wallet whose value is one above its chunk.
WideNote == OwnNote(256 ^ NOTE_CHUNKS[3])

\* add_leaf(hash, Some(note)) for an owned note, add_leaf(hash, None) for
\* the commitment of somebody else's note.
LeafInputs ==
    { [hash |-> note_hash(OwnNote(v)), note |-> <<OwnNote(v)>>] :
        v \in NoteVals }
      \cup { [hash |-> note_hash(ForeignNote), note |-> <<>>],
              [hash |-> note_hash(WideNote), note |-> <<WideNote>>] }

\* The positions at which leaves are added.
LeafPositions == {0, 1, 2, 3}

poolSide ==
    <<poolVars, result, accepted, everCurrent, pc, last_replay,
      last_memo_reduced, last_failed>>

\* A leaf fits while the tree of height P_H has a free position.
has_room == gen_num_leaves \in LeafPositions /\ gen_num_leaves < 2 ^ P_H

\* add_leaf up to its last statement: the transaction is complete, the
\* store untouched.
add_leaf_begin ==
    /\ frame.at = "idle"
    /\ has_room
    /\ \E leaf \in LeafInputs :
          frame' = IF add_leaf_panics(leaf.note) THEN [at |-> "idle"]
                   ELSE [at |-> "add_leaf", leaf |-> leaf,
                         tx |-> add_leaf_tx(leaf.hash, leaf.note)]
    /\ observed' = <<>>
    /\ UNCHANGED <<db, leaves, built, poolSide, testVars>>

\* self.db.write(tx).unwrap()
add_leaf_write ==
    /\ frame.at = "add_leaf"
    /\ db' = db_write(db, frame.tx)
    /\ leaves' = Append(leaves, frame.leaf)
    /\ frame' = [at |-> "idle"]
    /\ observed' = <<>>
    /\ UNCHANGED <<built, poolSide, testVars>>

\* The process stops, or the write fails, before the transaction is
\* applied: the transaction is dropped with the call.
add_leaf_crash ==
    /\ frame.at = "add_leaf"
    /\ frame' = [at |-> "idle"]
    /\ observed' = <<>>
    /\ UNCHANGED <<db, leaves, built, poolSide, testVars>>

\* Another holder of the store reads while a call may be in progress.
reader_get_note_list ==
    /\ observed' = <<[num_leaves |-> gen_num_leaves,
                      note_list |-> get_note_list,
                      balance |-> total_balance]>>
    /\ UNCHANGED <<db, frame, leaves, built, poolSide, testVars>>

NextTree ==
    add_leaf_begin \/ add_leaf_write \/ add_leaf_crash
        \/ reader_get_note_list

SpecTree == Init /\ [][NextTree]_vars

(***************************************************************************)
(* Vocabulary of the tree properties.                                      *)
(***************************************************************************)
LeafHashes == [i \in 1..Len(leaves) |-> leaves[i].hash]

\* The node at (level, index) of the tree of height P_H whose first leaves
\* are hs and whose other leaves are empty; left child first.
RECURSIVE MerkleNode(_, _, _)
MerkleNode(hs, level, index) ==
    IF level = 0
    THEN IF index < Len(hs) THEN hs[index + 1] ELSE num(0)
    ELSE poseidon(<<MerkleNode(hs, level - 1, 2 * index),
                    MerkleNode(hs, level - 1, 2 * index + 1)>>)

\* The root a Merkle proof reconstructs from a leaf, from level i on.
RECURSIVE merkle_proof_root_from(_, _, _)
merkle_proof_root_from(cur, proof, i) ==
    IF i > Len(proof.sibling) THEN cur
    ELSE merkle_proof_root_from(
            IF proof.path[i] THEN poseidon(<<proof.sibling[i], cur>>)
            ELSE poseidon(<<cur, proof.sibling[i]>>),
            proof, i + 1)

merkle_proof_root(leaf, proof) == merkle_proof_root_from(leaf, proof, 1)

(***************************************************************************)
(* C14.  After add_leaf calls with hashes h_0 .. h_(n-1): num_leaves = n,  *)
(* cell (0, i) = h_i for every i < n, and the root cell (H, 0) is the      *)
(* Merkle root of the tree of height H whose first n leaves are the h_i    *)
(* and whose other leaves are empty.                                       *)
(***************************************************************************)
C14_TreeOfAddedLeaves ==
    /\ gen_num_leaves = Len(leaves)
    /\ \A i \in 1..Len(leaves) : get_cell(<<0, i - 1>>) = leaves[i].hash
    /\ get_cell(<<P_H, 0>>) = MerkleNode(LeafHashes, P_H, 0)

\* Three leaves: the last one has an empty right sibling.
C14_Witness ==
    /\ Len(leaves) = 3
    /\ leaves[1].hash # leaves[2].hash
    /\ frame.at = "idle"

NotePositions == { i - 1 : i \in { j \in 1..Len(leaves) :
                                       Len(leaves[j].note) = 1 } }

StoreAgrees ==
    /\ gen_num_leaves = Len(leaves)
    /\ DOMAIN db[COL_NOTE] = NotePositions
    /\ \A p \in NotePositions :
          note_try_from_slice(db[COL_NOTE][p]) = leaves[p + 1].note[1]
    /\ \A pos \in DOMAIN db[COL_CELL] :
          /\ pos[1] = 0 => pos[2] < Len(leaves)
          /\ db[COL_CELL][pos] = MerkleNode(LeafHashes, pos[1], pos[2])
    /\ \A i \in 0..(Len(leaves) - 1) : <<0, i>> \in DOMAIN db[COL_CELL]
    /\ get_cell(<<P_H, 0>>) = MerkleNode(LeafHashes, P_H, 0)

ReaderSawCompletedCalls ==
    \A i \in 1..Len(observed) :
        /\ observed[i].num_leaves = Len(leaves)
        /\ { observed[i].note_list[k].pos :
                k \in 1..Len(observed[i].note_list) } = NotePositions

C16_AtomicBatch ==
    /\ [](StoreAgrees /\ ReaderSawCompletedCalls)
    /\ [][db' # db =>
            /\ frame.at = "add_leaf"
            /\ leaves' = Append(leaves, frame.leaf)
            /\ StoreAgrees']_vars

\* A reader ran between the construction of a transaction and its write,
\* after an earlier call had put a note into the store.
C16_Witness ==
    /\ frame.at = "add_leaf"
    /\ Len(frame.leaf.note) = 1
    /\ Len(observed) = 1
    /\ NotePositions # {}

(***************************************************************************)
(* The transaction builder, ClientState::make_transaction_object.          *)
(*                                                                         *)
(* Amounts are BigUint and BigInt in the source: the model keeps them as   *)
(* integers, and a BigUint subtraction below zero is the panic it is in    *)
(* num-bigint.  The 64-bit width of a note value and of delta is scaled    *)
(* down to V_BITS bits.                                                    *)
(***************************************************************************)
V_BITS == 4

limit_amount == 2 ^ V_BITS

\* Num::from_binary_be: the bytes read big-endian, reduced into Fr.
RECURSIVE from_bytes_be(_)
from_bytes_be(bytes) ==
    IF bytes = <<>> THEN 0
    ELSE bytes[Len(bytes)]
            + 256 * from_bytes_be(SubSeq(bytes, 1, Len(bytes) - 1))

Num_from_binary_be(bytes) == from_bytes_be(bytes) % FrModulus

\* prepare_delta: panic stands for the failed assert!.
prepare_delta(delta) ==
    LET d == IF delta < 0 THEN delta + limit_amount ELSE delta
    IN [panic |-> ~(d >= 0 /\ d < limit_amount), value |-> d]

\* note.sort_by(|a, b| b.2.partial_cmp(&a.2)): stable, descending by value.
RECURSIVE insert_by_value_desc(_, _)
insert_by_value_desc(x, s) ==
    IF s = <<>> THEN <<x>>
    ELSE IF Head(s).note.v >= x.note.v
         THEN <<Head(s)>> \o insert_by_value_desc(x, Tail(s))
         ELSE <<x>> \o s

RECURSIVE sort_by_value_desc(_)
sort_by_value_desc(list) ==
    IF list = <<>> THEN <<>>
    ELSE insert_by_value_desc(list[Len(list)],
            sort_by_value_desc(SubSeq(list, 1, Len(list) - 1)))

min(a, b) == IF a < b THEN a ELSE b

\* A loop that exchanges the last chosen note for the smallest one and
\* leaves the spending amount as it was.
downsize_unaccounted(note, amount, i, spending_amount, indexes) ==
    [panic |-> FALSE, spending_amount |-> spending_amount,
     indexes |-> [indexes EXCEPT ![P_IN] = Len(note)]]

\* The greedy downsizing loop from iteration i on.  indexes holds positions
\* of the sorted list, counted from 1.
RECURSIVE downsize_from(_, _, _, _, _)
downsize_from(note, amount, i, spending_amount, indexes) ==
    IF i = P_IN
    THEN [panic |-> FALSE, spending_amount |-> spending_amount,
          indexes |-> indexes]
    ELSE LET i1 == P_IN - i - 1
             i2 == Len(note) - i - 1
             delta == note[i1 + 1].note.v - note[i2 + 1].note.v
         IN IF delta < 0 \/ spending_amount - delta < 0
            THEN [panic |-> TRUE, spending_amount |-> spending_amount,
                  indexes |-> indexes]
            ELSE IF spending_amount - delta < amount
            THEN [panic |-> FALSE, spending_amount |-> spending_amount,
                  indexes |-> indexes]
            ELSE downsize_from(note, amount, i + 1, spending_amount - delta,
                               [indexes EXCEPT ![i1 + 1] = i2 + 1])

\* The k-th number the call draws with rand_biguint, counted from 1.
rand_biguint(rng, k) == rng.seed + k

\* The k-th field element the call draws with rng.gen().
rng_gen_fr(rng, d, k) ==
    IF rng.pk_d = "derived" THEN derive_key_pk_d(num(d), self_dk)
    ELSE num(rng.seed + k)

zero_proof ==
    [sibling |-> [i \in 1..P_H |-> num(0)], path |-> [i \in 1..P_H |-> FALSE]]

tx_hash(in_note_hash, out_note_hash) ==
    poseidon_with_salt(in_note_hash \o out_note_hash, SEED_TX_HASH)

\* Wallet::sign and its verification: an ideal signature, valid for one key
\* and one message.
wallet_sign(m) ==
    [s |-> <<"eddsa_s", self_xsk, m>>, r |-> <<"eddsa_r", self_xsk, m>>]

tx_verify(s, r, xsk, m) ==
    s = <<"eddsa_s", xsk, m>> /\ r = <<"eddsa_r", xsk, m>>

\* make_transaction_object: what the call returns.  outcome is "none" for
\* None, "some" for Some((transfer_pub, transfer_sec, assets)) and "panic"
\* for a call that aborts.
make_transaction_object_result(rng, recv_addr, amount, delta) ==
    LET note == sort_by_value_desc(get_note_list)
        taken == min(P_IN, Len(note))
        top == SumSeq([k \in 1..taken |-> note[k].note.v])
        args == [amount |-> amount, delta |-> delta, recv_addr |-> recv_addr]
    IN
    IF top + delta < 0 THEN [outcome |-> "none", args |-> args]
    ELSE IF top + delta < amount THEN [outcome |-> "none", args |-> args]
    ELSE
    LET first == [k \in 1..taken |-> k]
        chosen == IF Len(note) > P_IN
                  THEN downsize_from(note, amount, 0, top + delta, first)
                  ELSE [panic |-> FALSE, spending_amount |-> top + delta,
                        indexes |-> first]
        indexes == chosen.indexes
        spending_amount == chosen.spending_amount
        sender_note ==
            [d |-> rand_biguint(rng, 1),
             pk_d |-> derive_key_pk_d(num(rand_biguint(rng, 1)), self_dk),
             v |-> spending_amount - amount,
             st |-> rand_biguint(rng, 2)]
        receiver_note ==
            [d |-> recv_addr.d, pk_d |-> recv_addr.pk_d, v |-> amount,
             st |-> rand_biguint(rng, 3)]
        padding(k) ==
            [d |-> rand_biguint(rng, 2 * k + 2),
             pk_d |-> rng_gen_fr(rng, rand_biguint(rng, 2 * k + 2), k),
             v |-> 0,
             st |-> rand_biguint(rng, 2 * k + 3)]
        input == [k \in 1..P_IN |->
                    IF k <= Len(indexes) THEN note[indexes[k]].note
                    ELSE padding(k)]
        output == [k \in 1..P_OUT |->
                    IF k = 1 THEN sender_note
                    ELSE IF k = 2 THEN receiver_note
                    ELSE padding(P_IN + k)]
        assets == rng.assets
        memo == Num_from_binary_be(keccak256(assets))
        in_proof == [k \in 1..P_IN |->
                        IF k <= Len(indexes)
                        THEN get_merkle_proof(note[indexes[k]].pos)
                        ELSE zero_proof]
        in_note_hash == [k \in 1..P_IN |-> note_hash(input[k])]
        out_note_hash == [k \in 1..P_OUT |-> note_hash(output[k])]
        sig == wallet_sign(tx_hash(in_note_hash, out_note_hash))
        prepared == prepare_delta(delta)
    IN
    IF chosen.panic \/ prepared.panic
    THEN [outcome |-> "panic", args |-> args]
    ELSE [outcome |-> "some",
          args |-> args,
          selected |-> [k \in 1..Len(indexes) |-> note[indexes[k]]],
          transfer_pub |->
              [root |-> get_cell(<<P_H, 0>>),
               nullifier |-> [k \in 1..P_IN |->
                                nullfifier(in_note_hash[k], self_xsk)],
               out_hash |-> out_note_hash,
               delta |-> prepared.value,
               memo |-> memo],
          transfer_sec |->
              [tx |-> [input |-> input, output |-> output],
               in_proof |-> in_proof,
               eddsa_s |-> sig.s,
               eddsa_r |-> sig.r,
               eddsa_a |-> self_xsk],
          assets |-> assets]

(***************************************************************************)
(* The calls offered to the builder.                                       *)
(***************************************************************************)
Amounts == {0, 2, 5, 6}

Deltas == {-9, 0, 2, 8}

\* The address of the receiver: a diversifier and the key derived from it.
RecvAddrs == { [d |-> 3, pk_d |-> derive_key_pk_d(num(3), other_dk)] }

\* The random choices of one call: the numbers rand_biguint returns, the
\* field elements rng.gen() returns (arbitrary, or by chance the key the
\* wallet would derive), and the ciphertext bytes, which depend on the
\* random ephemeral keys.
Rngs ==
    { [seed |-> s, pk_d |-> p, assets |-> m] :
        s \in {0, 6}, p \in {"random", "derived"}, m \in Messages }

\* add_leaf as one step.
add_leaf ==
    /\ frame.at = "idle"
    /\ has_room
    /\ \E leaf \in LeafInputs :
          IF add_leaf_panics(leaf.note) THEN UNCHANGED <<db, leaves>>
          ELSE /\ db' = db_write(db, add_leaf_tx(leaf.hash, leaf.note))
               /\ leaves' = Append(leaves, leaf)
    /\ UNCHANGED <<frame, observed, built, poolSide, testVars>>

\* A builder that removes the notes it has selected from the store.
make_transaction_object_spending ==
    /\ frame.at = "idle"
    /\ \E rng \in Rngs : \E recv_addr \in RecvAddrs :
       \E amount \in Amounts : \E delta \in Deltas :
          LET r == make_transaction_object_result(rng, recv_addr, amount,
                                                  delta)
              spent == IF r.outcome = "some"
                       THEN { r.selected[k].pos : k \in 1..Len(r.selected) }
                       ELSE {}
          IN /\ built' = <<r>>
             /\ db' = [db EXCEPT ![COL_NOTE] =
                          [q \in (DOMAIN @) \ spent |-> @[q]]]
    /\ frame' = [at |-> "returned"]
    /\ UNCHANGED <<leaves, observed, poolSide, testVars>>

make_transaction_object ==
    /\ frame.at = "idle"
    /\ \E rng \in Rngs : \E recv_addr \in RecvAddrs :
       \E amount \in Amounts : \E delta \in Deltas :
          built' = <<make_transaction_object_result(rng, recv_addr, amount,
                                                    delta)>>
    /\ frame' = [at |-> "returned"]
    /\ UNCHANGED <<db, leaves, observed, poolSide, testVars>>

\* The caller has taken the result.
builder_return ==
    /\ frame.at = "returned"
    /\ frame' = [at |-> "idle"]
    /\ built' = <<>>
    /\ UNCHANGED <<db, leaves, observed, poolSide, testVars>>

NextBuilder == add_leaf \/ make_transaction_object \/ builder_return

SpecBuilder == Init /\ [][NextBuilder]_vars

(***************************************************************************)
(* Vocabulary of the builder properties.                                   *)
(***************************************************************************)
\* The values of the notes the wallet was given with add_leaf, by position.
OwnedValue(p) == leaves[p + 1].note[1].v

\* The value sum of the owned notes at the positions S.
RECURSIVE SumOwned(_)
SumOwned(S) ==
    IF S = {} THEN 0
    ELSE LET x == CHOOSE y \in S : TRUE
         IN OwnedValue(x) + SumOwned(S \ {x})

\* The selections the builder may make: at most P_IN owned notes.
Selections ==
    { S \in SUBSET NotePositions : Cardinality(S) <= P_IN }

\* The largest sum of at most P_IN owned notes.
TopSum ==
    CHOOSE t \in { SumOwned(S) : S \in Selections } :
        \A S \in Selections : SumOwned(S) <= t

Returned == { built[i] : i \in 1..Len(built) }

NoteValues(notes) == SumSeq([k \in 1..Len(notes) |-> notes[k].v])

(***************************************************************************)
(* C11.  The memo the builder puts into TransferPub for the message it     *)
(* returns is the value the pool's memo check expects for that message:    *)
(* for every message, the pair passes the check.                           *)
(***************************************************************************)
C11_BuilderMemoPassesPoolCheck ==
    \A r \in Returned :
        r.outcome = "some" =>
            r.transfer_pub.memo = U256_try_from_slice(keccak256(r.assets))

(***************************************************************************)
(* C17.  Whenever make_transaction_object returns a result, the receiver   *)
(* note (output 1) has the given (d, pk_d) and v = amount, the sender's    *)
(* change note (output 0) has v = (sum of the selected input values +      *)
(* delta) - amount, and the input values plus delta equal the output       *)
(* values.                                                                 *)
(***************************************************************************)
C17_OutputValues ==
    \A r \in Returned :
        r.outcome = "some" =>
            LET tx == r.transfer_sec.tx
                selected_sum ==
                    SumSeq([k \in 1..Len(r.selected) |-> r.selected[k].note.v])
            IN
            /\ tx.output[2].d = r.args.recv_addr.d
            /\ tx.output[2].pk_d = r.args.recv_addr.pk_d
            /\ tx.output[2].v = r.args.amount
            /\ tx.output[1].v = (selected_sum + r.args.delta) - r.args.amount
            /\ tx.output[1].v >= 0
            /\ NoteValues(tx.input) + r.args.delta = NoteValues(tx.output)

\* One owned note of 5, amount 2, delta 0: the change is 3.
C17_Witness ==
    \E r \in Returned :
        /\ r.outcome = "some"
        /\ NotePositions = {0}
        /\ OwnedValue(0) = 5
        /\ r.args.amount = 2
        /\ r.args.delta = 0
        /\ r.transfer_sec.tx.output[1].v = 3

(***************************************************************************)
(* C18.  make_transaction_object returns no result exactly when the sum of *)
(* the IN largest owned note values plus delta is less than amount (also   *)
(* when that sum is negative), and returns a result in every other case.   *)
(***************************************************************************)
C18_NoResultIffInsufficient ==
    \A r \in Returned :
        /\ (r.outcome = "none") <=> (TopSum + r.args.delta < r.args.amount)
        /\ ~(TopSum + r.args.delta < r.args.amount) => r.outcome = "some"

(***************************************************************************)
(* C19.  The selection the builder returns minimises the change: no        *)
(* selection of at most IN owned notes whose value sum plus delta is at    *)
(* least amount gives a smaller change.                                    *)
(***************************************************************************)
C19_SelectionMinimisesChange ==
    \A r \in Returned :
        r.outcome = "some" =>
            \A S \in Selections :
                SumOwned(S) + r.args.delta >= r.args.amount
                    => r.transfer_sec.tx.output[1].v
                         <= SumOwned(S) + r.args.delta
                                - r.args.amount

(***************************************************************************)
(* Part C, the transfer circuit c_transfer (pool-crypto/src/circuit/tx.rs) *)
(* as the predicate its constraints define on a public signal p and a      *)
(* secret witness s.  The bit widths of d and st (80 in the source) are    *)
(* scaled down to D_BITS and ST_BITS.                                      *)
(***************************************************************************)
D_BITS == 8
ST_BITS == 8

\* A bit decomposition that constrains nothing.
c_into_bits_any(x, bits) == TRUE

\* c_into_bits_le(x, bits) is satisfiable exactly for 0 <= x < 2^bits.
c_into_bits_le(x, bits) == x >= 0 /\ x < 2 ^ bits

c_note_hash(note) == note_hash(note)

c_nullfifier(hash, xsk) == nullfifier(hash, xsk)

c_derive_key_dk(xsk) == derive_key_dk(xsk)

c_derive_key_pk_d(d, dk) == derive_key_pk_d(d, dk)

c_tx_hash(in_note_hash, out_note_hash) == tx_hash(in_note_hash, out_note_hash)

c_tx_verify(s, r, xsk, m) == tx_verify(s, r, xsk, m)

\* delta minus 2^V_BITS times its top bit.
c_parse_delta(delta) ==
    delta - ((delta \div (2 ^ (V_BITS - 1))) % 2) * (2 ^ V_BITS)

c_transfer_ranges(s) ==
    \A n \in { s.tx.input[k] : k \in 1..P_IN }
                \cup { s.tx.output[k] : k \in 1..P_OUT } :
        /\ c_into_bits_le(n.d, D_BITS)
        /\ c_into_bits_le(n.v, V_BITS)
        /\ c_into_bits_le(n.st, ST_BITS)

c_transfer_ownership(s) ==
    \A i \in 1..P_IN :
        s.tx.input[i].pk_d
            = c_derive_key_pk_d(num(s.tx.input[i].d),
                                c_derive_key_dk(s.eddsa_a))

c_transfer_nullifier(p, s) ==
    /\ \A i \in 1..P_IN :
          p.nullifier[i] = c_nullfifier(c_note_hash(s.tx.input[i]), s.eddsa_a)
    /\ \A i \in 1..P_IN : \A j \in (i + 1)..P_IN :
          p.nullifier[i] # p.nullifier[j]

c_transfer_output(p, s) ==
    /\ \A i \in 1..P_OUT : \A j \in (i + 1)..P_OUT :
          p.out_hash[i] # p.out_hash[j]
    /\ \A i \in 1..P_OUT : p.out_hash[i] = c_note_hash(s.tx.output[i])

\* (cur_root - root).assert_zero(), with no factor v.
c_transfer_merkle_ungated(p, s, i) ==
    merkle_proof_root(c_note_hash(s.tx.input[i]), s.in_proof[i]) = p.root

\* ((cur_root - root) * v).assert_zero() for input i
c_transfer_merkle_at(p, s, i) ==
    \/ merkle_proof_root(c_note_hash(s.tx.input[i]), s.in_proof[i]) = p.root
    \/ s.tx.input[i].v = 0

c_transfer_merkle(p, s) == \A i \in 1..P_IN : c_transfer_merkle_at(p, s, i)

c_transfer_memo(p) == (p.memo + 1) % FrModulus # 0

c_transfer_signature(p, s) ==
    c_tx_verify(s.eddsa_s, s.eddsa_r, s.eddsa_a,
                c_tx_hash([k \in 1..P_IN |-> c_note_hash(s.tx.input[k])],
                          p.out_hash))

c_transfer_balance(p, s) ==
    /\ c_into_bits_le(p.delta, V_BITS)
    /\ (c_parse_delta(p.delta) + NoteValues(s.tx.input)
            - NoteValues(s.tx.output)) % FrModulus = 0

c_transfer(p, s) ==
    /\ c_transfer_ranges(s)
    /\ c_transfer_ownership(s)
    /\ c_transfer_nullifier(p, s)
    /\ c_transfer_output(p, s)
    /\ c_transfer_merkle(p, s)
    /\ c_transfer_memo(p)
    /\ c_transfer_signature(p, s)
    /\ c_transfer_balance(p, s)

(***************************************************************************)
(* C20.  The padding inputs the builder creates when it selects fewer than *)
(* IN owned notes (v = 0, random d, st and pk_d, all-zero Merkle proof)    *)
(* satisfy every constraint of c_transfer: a transaction built from fewer  *)
(* than IN owned notes, also from none, is a valid witness.                *)
(***************************************************************************)
C20_PaddedTransactionIsValidWitness ==
    \A r \in Returned :
        (r.outcome = "some" /\ Len(r.selected) < P_IN)
            => c_transfer(r.transfer_pub, r.transfer_sec)

(***************************************************************************)
(* C21.  For a client with at least IN owned notes, all added with         *)
(* add_leaf under their note hashes, pairwise different and with pk_d      *)
(* derived from the client's own dk, the (TransferPub, TransferSec) pair   *)
(* that make_transaction_object returns satisfies every constraint of      *)
(* c_transfer.                                                             *)
(***************************************************************************)
OwnedNote(p) == leaves[p + 1].note[1]

OwnedNotesWellFormed ==
    /\ Cardinality(NotePositions) >= P_IN
    /\ \A p \in NotePositions :
          /\ leaves[p + 1].hash = note_hash(OwnedNote(p))
          /\ OwnedNote(p).pk_d
                = derive_key_pk_d(num(OwnedNote(p).d), self_dk)
    /\ \A p \in NotePositions : \A q \in NotePositions :
          p # q => OwnedNote(p) # OwnedNote(q)

C21_BuiltTransactionSatisfiesCircuit ==
    \A r \in Returned :
        (r.outcome = "some" /\ OwnedNotesWellFormed)
            => c_transfer(r.transfer_pub, r.transfer_sec)

(***************************************************************************)
(* c_transfer on a TestCS: the circuit is run on an allocated assignment   *)
(* (CTransferPub::alloc, CTransferSec::alloc) and the constraint system    *)
(* is satisfied or not.  The assignments offered differ in the note        *)
(* values, in delta and in the Merkle proofs; keys, hashes, nullifiers and *)
(* signature are those of the wallet.  A value is a field element: any     *)
(* number below the modulus, also one above the range of an amount.        *)
(***************************************************************************)
CircuitValues == {0, 1, 2 ^ V_BITS, FrModulus - 1}

CircuitOutputValues == {0, 1, FrModulus - 1}

CircuitDeltas == {0, 1, 2 ^ V_BITS - 1, FrModulus - 1}

InputNote(k, v) ==
    [d |-> k, pk_d |-> derive_key_pk_d(num(k), self_dk), v |-> v, st |-> k]

OutputNote(k, v) ==
    [d |-> P_IN + k, pk_d |-> derive_key_pk_d(num(P_IN + k), other_dk),
     v |-> v, st |-> k]

\* The proof of the leaf at pos in the tree whose first leaves are hs.
TreeProof(hs, pos) ==
    [sibling |-> [i \in 1..P_H |->
                     MerkleNode(hs, i - 1, xor_one(pos \div (2 ^ (i - 1))))],
     path |-> [i \in 1..P_H |-> (pos \div (2 ^ (i - 1))) % 2 = 1]]

\* The assignment with the given input values, output values and delta,
\* where input k carries its proof in the tree of the inputs if in_tree[k]
\* and the all-zero proof otherwise.
Assignment(in_v, out_v, delta, in_tree) ==
    LET input == [k \in 1..P_IN |-> InputNote(k, in_v[k])]
        output == [k \in 1..P_OUT |-> OutputNote(k, out_v[k])]
        in_note_hash == [k \in 1..P_IN |-> note_hash(input[k])]
        out_note_hash == [k \in 1..P_OUT |-> note_hash(output[k])]
        sig == wallet_sign(tx_hash(in_note_hash, out_note_hash))
    IN [p |-> [root |-> MerkleNode(in_note_hash, P_H, 0),
               nullifier |-> [k \in 1..P_IN |->
                                nullfifier(in_note_hash[k], self_xsk)],
               out_hash |-> out_note_hash,
               delta |-> delta,
               memo |-> 0],
        s |-> [tx |-> [input |-> input, output |-> output],
               in_proof |-> [k \in 1..P_IN |->
                               IF in_tree[k]
                               THEN TreeProof(in_note_hash, k - 1)
                               ELSE zero_proof],
               eddsa_s |-> sig.s,
               eddsa_r |-> sig.r,
               eddsa_a |-> self_xsk]]

\* let ref mut cs = TestCS::new()
TestCS_new ==
    /\ cs # <<>>
    /\ cs' = <<>>
    /\ UNCHANGED <<clientVars, poolSide, native>>

\* alloc p and s, c_transfer(&p, &s, params)
test_circuit_tx ==
    /\ cs = <<>>
    /\ \E in_v \in [1..P_IN -> CircuitValues] :
       \E out_v \in [1..P_OUT -> CircuitOutputValues] :
       \E delta \in CircuitDeltas :
       \E in_tree \in [1..P_IN -> BOOLEAN] :
          LET a == Assignment(in_v, out_v, delta, in_tree)
          IN cs' = <<[p |-> a.p, s |-> a.s,
                      satisfied |-> c_transfer(a.p, a.s),
                      merkle |-> [i \in 1..P_IN |->
                                    c_transfer_merkle_at(a.p, a.s, i)]]>>
    /\ UNCHANGED <<clientVars, poolSide, native>>

NextCircuit == test_circuit_tx \/ TestCS_new

SpecCircuit == Init /\ [][NextCircuit]_vars

\* A word of V_BITS bits read as a two's-complement signed amount.
TwosComplement(x) == IF x < 2 ^ (V_BITS - 1) THEN x ELSE x - 2 ^ V_BITS

Amount == 0..(2 ^ V_BITS - 1)

(***************************************************************************)
(* C22.  An assignment satisfies c_transfer only if every note value is an *)
(* amount of the value width, delta is a word of that width, and delta     *)
(* read as a two's-complement signed amount plus the sum of the input      *)
(* values minus the sum of the output values is zero as an integer: no     *)
(* assignment with a non-zero imbalance satisfies the circuit.             *)
(***************************************************************************)
C22_BalanceIsExact ==
    \A i \in 1..Len(cs) :
        cs[i].satisfied =>
            LET tx == cs[i].s.tx
            IN /\ \A k \in 1..P_IN : tx.input[k].v \in Amount
               /\ \A k \in 1..P_OUT : tx.output[k].v \in Amount
               /\ cs[i].p.delta \in Amount
               /\ TwosComplement(cs[i].p.delta) + NoteValues(tx.input)
                     - NoteValues(tx.output) = 0

\* A satisfied withdrawal: delta is the word of -1 and an input holds 1.
C22_Witness ==
    \E i \in 1..Len(cs) :
        /\ cs[i].satisfied
        /\ cs[i].p.delta = 2 ^ V_BITS - 1
        /\ NoteValues(cs[i].s.tx.input) = 1
        /\ NoteValues(cs[i].s.tx.output) = 0

(***************************************************************************)
(* C23.  c_transfer constrains Merkle membership only for inputs of        *)
(* non-zero value: an assignment satisfies the circuit only if the path of *)
(* every input with v # 0 reconstructs the public root, and the membership *)
(* constraint of an input with v = 0 holds whatever its siblings and path. *)
(***************************************************************************)
C23_MembershipGatedByValue ==
    \A i \in 1..Len(cs) :
        LET p == cs[i].p
            s == cs[i].s
        IN /\ cs[i].satisfied =>
                \A k \in 1..P_IN :
                    s.tx.input[k].v # 0 =>
                        merkle_proof_root(note_hash(s.tx.input[k]),
                                          s.in_proof[k]) = p.root
           /\ \A k \in 1..P_IN : s.tx.input[k].v = 0 => cs[i].merkle[k]

\* A satisfied assignment with an input of value 1 in the tree and an input
\* of value 0 whose proof does not reconstruct the root.
C23_Witness ==
    \E i \in 1..Len(cs) :
        /\ cs[i].satisfied
        /\ cs[i].s.tx.input[1].v = 1
        /\ cs[i].s.tx.input[2].v = 0
        /\ merkle_proof_root(note_hash(cs[i].s.tx.input[2]),
                             cs[i].s.in_proof[2]) # cs[i].p.root

(***************************************************************************)
(* The native codec and delta functions (pool-crypto/src/native/tx.rs),    *)
(* each called on its own.  A field element Num<Fr> is a number below      *)
(* FrModulus.                                                              *)
(***************************************************************************)
min_neg_amount == 2 ^ (V_BITS - 1)

\* A parse_delta that reads every word as a positive amount.
parse_delta_unsigned(delta) ==
    [panic |-> ~(delta < limit_amount), value |-> delta]

\* parse_delta: panic stands for the failed assert!; the difference is
\* taken in the field.
parse_delta(delta) ==
    [panic |-> ~(delta < limit_amount),
     value |-> IF delta < min_neg_amount THEN delta
               ELSE (delta - limit_amount) % FrModulus]

\* The field elements offered as delta: every word of the amount width,
\* the first numbers above it and the largest field element.
DeltaWords == 0..(2 ^ V_BITS + 3) \cup {FrModulus - 1}

\* The signed amounts offered to prepare_delta.
SignedDeltas == (0 - 2 ^ V_BITS - 1)..(2 ^ V_BITS + 1)

parse_delta_call ==
    /\ native = <<>>
    /\ \E x \in DeltaWords :
          native' = <<[fn |-> "parse_delta", arg |-> x,
                       out |-> parse_delta(x)]>>
    /\ UNCHANGED <<clientVars, poolSide, cs>>

\* c_into_bits_le(delta, 64) constrains the word, the returned signal is
\* a field element.
c_parse_delta_call ==
    /\ native = <<>>
    /\ \E x \in DeltaWords :
          native' = <<[fn |-> "c_parse_delta", arg |-> x,
                       out |-> [satisfiable |-> c_into_bits_le(x, V_BITS),
                                value |-> c_parse_delta(x) % FrModulus]]>>
    /\ UNCHANGED <<clientVars, poolSide, cs>>

prepare_delta_call ==
    /\ native = <<>>
    /\ \E delta \in SignedDeltas :
          native' = <<[fn |-> "prepare_delta", arg |-> delta,
                       out |-> prepare_delta(delta)]>>
    /\ UNCHANGED <<clientVars, poolSide, cs>>

\* The notes offered to the codec: in d, v and st the ends of the chunk,
\* the first numbers above it and the largest field element.
ChunkNums == {0, 1, 255, 256, 257, FrModulus - 1}

CodecNotes ==
    { [d |-> d, pk_d |-> pk_d, v |-> v, st |-> st] :
        d \in ChunkNums, pk_d \in {0, 257, FrModulus - 1},
        v \in ChunkNums, st \in ChunkNums }

\* note.try_to_vec()
note_serialize_call ==
    /\ native = <<>>
    /\ \E n \in CodecNotes :
          native' = <<[fn |-> "serialize", arg |-> n,
                       out |-> Note_serialize(n)]>>
    /\ UNCHANGED <<clientVars, poolSide, cs>>

\* Note::try_from_slice on the bytes the last serialization produced.
note_deserialize_call ==
    /\ native # <<>>
    /\ native[1].fn = "serialize"
    /\ ~native[1].out.err
    /\ native' = <<[fn |-> "deserialize", arg |-> native[1].out.bytes,
                    out |-> Note_deserialize(native[1].out.bytes),
                    note |-> native[1].arg]>>
    /\ UNCHANGED <<clientVars, poolSide, cs>>

(***************************************************************************)
(* Note encryption.  The subgroup of the curve is the cyclic group of      *)
(* prime order FsModulus: a point is the scalar k of k*G, and its          *)
(* x-coordinate, one field element per point of the subgroup, is what a    *)
(* note and a message carry.  A Keccak digest has U256Bytes bytes.         *)
(***************************************************************************)
FsModulus == 7

Fs == 0..(FsModulus - 1)

\* EdwardsPoint::mul
point_mul(point, scalar) == (point * scalar) % FsModulus

\* The x-coordinate of a point; the neutral element (0, 1) has x = 0.
point_x(point) == IF point = 0 THEN 0 ELSE 300 + point

\* EdwardsPoint::subgroup_decompress: <<>> is None.
subgroup_decompress(x) ==
    IF x = 0 THEN <<0>>
    ELSE IF x - 300 \in 1..(FsModulus - 1) THEN <<x - 300>>
    ELSE <<>>

\* Num::inverse: <<>> for the zero scalar, which has no inverse.
Fs_inverse(a) ==
    IF a % FsModulus = 0 THEN <<>>
    ELSE <<CHOOSE b \in Fs : (a * b) % FsModulus = 1>>

\* EdwardsPoint::from_scalar(poseidon_with_salt(&[d], SEED_DIVERSIFIER)):
\* a point of the subgroup for every diversifier.
diversifier_point(d) == 1 + ((3 * d + 1) % (FsModulus - 1))

\* derive_key_pk_d over this group.
derive_key_pk_d_point(d, dk) == point_mul(diversifier_point(d), dk)

RECURSIVE bitxor(_, _)
bitxor(a, b) ==
    IF a = 0 THEN b
    ELSE IF b = 0 THEN a
    ELSE ((a + b) % 2) + 2 * bitxor(a \div 2, b \div 2)

\* The mask is one digest per 32-byte block of data.
RECURSIVE xor_mask(_, _, _)
xor_mask(prefix, blocks, i) ==
    IF i = blocks THEN <<>>
    ELSE keccak256(prefix \o <<i>>) \o xor_mask(prefix, blocks, i + 1)

xor_crypt(prefix, data) ==
    LET mask == xor_mask(prefix, (Len(data) - 1) \div U256Bytes + 1, 0)
    IN [k \in 1..Len(data) |-> bitxor(data[k], mask[k])]

\* The bytes the hasher has taken in.
dh_prefix(dh_x, h) == Num_serialize(dh_x) \o h

\* A sender-recovery key that is the shared point itself.
note_encrypt_epk2_plain(dh, dk_inverse) == dh

\* dh.mul(dk.inverse(), params.jubjub())
note_encrypt_epk2(dh, dk_inverse) == point_mul(dh, dk_inverse)

\* note_encrypt: panic stands for a failed unwrap.
note_encrypt(esk, dk, note) ==
    LET pk_d == subgroup_decompress(note.pk_d)
        note_vec == Note_serialize(note)
        dk_inverse == Fs_inverse(dk)
    IN IF pk_d = <<>> \/ note_vec.err \/ dk_inverse = <<>>
       THEN [panic |-> TRUE, bytes |-> <<>>]
       ELSE LET dh == point_mul(pk_d[1], esk)
                note_hash_k == keccak256(note_vec.bytes)
                note_vec_enc ==
                    xor_crypt(dh_prefix(point_x(dh), note_hash_k),
                              note_vec.bytes)
                epk == derive_key_pk_d_point(note.d, esk)
                epk2 == note_encrypt_epk2(dh, dk_inverse[1])
            IN [panic |-> FALSE,
                bytes |-> Num_serialize(point_x(epk))
                            \o Num_serialize(point_x(epk2))
                            \o note_hash_k \o note_vec_enc]

\* note_decrypt: <<>> is None, <<n>> is Some(n).
note_decrypt(dk, epk, note_data) ==
    LET point == subgroup_decompress(epk)
    IN IF point = <<>> THEN <<>>
       ELSE LET dh == point_mul(point[1], dk)
                hash == SubSeq(note_data, 1, U256Bytes)
                note_vec ==
                    xor_crypt(dh_prefix(point_x(dh), hash),
                              SubSeq(note_data, U256Bytes + 1,
                                     Len(note_data)))
                decoded == Note_deserialize(note_vec)
            IN IF keccak256(note_vec) # hash THEN <<>>
               ELSE IF decoded.err \/ decoded.rest # <<>> THEN <<>>
               ELSE decoded.note

msg_size == U256Bytes + 2 * num_size + SumSeq(NOTE_CHUNKS)

note_decrypt_in(dk, msg_data) ==
    IF Len(msg_data) # msg_size THEN <<>>
    ELSE LET epk == Num_deserialize(SubSeq(msg_data, 1, num_size))
         IN IF epk.err THEN <<>>
            ELSE note_decrypt(dk, epk.value,
                    SubSeq(msg_data, 2 * num_size + 1, Len(msg_data)))

note_decrypt_out(dk, msg_data) ==
    IF Len(msg_data) # msg_size THEN <<>>
    ELSE LET epk == Num_deserialize(
                        SubSeq(msg_data, num_size + 1, 2 * num_size))
         IN IF epk.err THEN <<>>
            ELSE note_decrypt(dk, epk.value,
                    SubSeq(msg_data, 2 * num_size + 1, Len(msg_data)))

\* The notes offered to note_encrypt: pk_d is derived from the note's d
\* and the recipient's key r_dk, as tx_test::test_encryption does.
EncryptNotes(r_dk) ==
    { [d |-> d, pk_d |-> point_x(derive_key_pk_d_point(d, r_dk)),
       v |-> v, st |-> st] :
        d \in {1, 2, 256}, v \in {0, 5, 255}, st \in {0, 3} }

\* let msg = note_encrypt(esk, dk, note, &*POOL_PARAMS)
note_encrypt_call ==
    /\ native = <<>>
    /\ \E esk \in Fs : \E dk \in Fs : \E r_dk \in Fs :
       \E note \in EncryptNotes(r_dk) :
          native' = <<[fn |-> "note_encrypt",
                       arg |-> [esk |-> esk, dk |-> dk, r_dk |-> r_dk,
                                note |-> note],
                       out |-> note_encrypt(esk, dk, note)]>>
    /\ UNCHANGED <<clientVars, poolSide, cs>>

\* note_decrypt_in(r_dk, &msg, params) on the message just encrypted
note_decrypt_in_call ==
    /\ native # <<>>
    /\ native[1].fn = "note_encrypt"
    /\ ~native[1].out.panic
    /\ native' = <<[fn |-> "note_decrypt_in", arg |-> native[1].arg,
                    out |-> note_decrypt_in(native[1].arg.r_dk,
                                            native[1].out.bytes)]>>
    /\ UNCHANGED <<clientVars, poolSide, cs>>

\* note_decrypt_out(dk, &msg, params) on the message just encrypted
note_decrypt_out_call ==
    /\ native # <<>>
    /\ native[1].fn = "note_encrypt"
    /\ ~native[1].out.panic
    /\ native' = <<[fn |-> "note_decrypt_out", arg |-> native[1].arg,
                    out |-> note_decrypt_out(native[1].arg.dk,
                                             native[1].out.bytes)]>>
    /\ UNCHANGED <<clientVars, poolSide, cs>>

\* The caller has taken the result.
native_return ==
    /\ native # <<>>
    /\ native' = <<>>
    /\ UNCHANGED <<clientVars, poolSide, cs>>

NextNative ==
    \/ native_return
    \/ parse_delta_call \/ c_parse_delta_call \/ prepare_delta_call
    \/ note_serialize_call \/ note_deserialize_call
    \/ note_encrypt_call \/ note_decrypt_in_call \/ note_decrypt_out_call

SpecNative == Init /\ [][NextNative]_vars

(***************************************************************************)
(* Vocabulary of the codec and delta properties.                           *)
(***************************************************************************)
Called(fn) == { i \in 1..Len(native) : native[i].fn = fn }

\* The field element of a signed integer.
ToField(x) == x % FrModulus

\* n is below 256^width.
FitsChunk(n, width) == n < 256 ^ width

Encodable(note) ==
    /\ FitsChunk(note.d, NOTE_CHUNKS[1])
    /\ FitsChunk(note.v, NOTE_CHUNKS[3])
    /\ FitsChunk(note.st, NOTE_CHUNKS[4])

(***************************************************************************)
(* C24.  For every field value x below 2^w (w the amount width), native    *)
(* parse_delta returns x when x < 2^(w-1) and the field element of         *)
(* x - 2^w otherwise; the circuit's c_parse_delta yields the same value    *)
(* for every such x, and its constraints are satisfiable for no x >= 2^w.  *)
(***************************************************************************)
C24_ParseDeltaTwosComplement ==
    /\ \A i \in Called("parse_delta") :
          native[i].arg < 2 ^ V_BITS =>
              /\ ~native[i].out.panic
              /\ native[i].out.value = ToField(TwosComplement(native[i].arg))
    /\ \A i \in Called("c_parse_delta") :
          /\ native[i].out.satisfiable <=> native[i].arg < 2 ^ V_BITS
          /\ native[i].arg < 2 ^ V_BITS =>
                /\ native[i].out.value
                      = ToField(TwosComplement(native[i].arg))
                /\ native[i].out.value = parse_delta(native[i].arg).value

\* parse_delta was called on the word of the most negative amount.
C24_Witness ==
    \E i \in Called("parse_delta") :
        /\ native[i].arg = 2 ^ (V_BITS - 1)
        /\ native[i].out.value = FrModulus - 2 ^ (V_BITS - 1)

(***************************************************************************)
(* C25.  Compressed note codec: a note whose d, v and st fit in their      *)
(* chunk widths is encoded in exactly as many bytes as the chunk widths    *)
(* add up to, and decoding these bytes gives the note back; for a note in  *)
(* which d, v or st has a non-zero byte above its chunk width, encoding    *)
(* fails and produces no bytes.                                            *)
(***************************************************************************)
C25_NoteCodecRoundTrip ==
    /\ \A i \in Called("serialize") :
          IF Encodable(native[i].arg)
          THEN /\ ~native[i].out.err
               /\ Len(native[i].out.bytes) = SumSeq(NOTE_CHUNKS)
          ELSE /\ native[i].out.err
               /\ native[i].out.bytes = <<>>
    /\ \A i \in Called("deserialize") :
          /\ ~native[i].out.err
          /\ native[i].out.note = <<native[i].note>>
          /\ native[i].out.rest = <<>>

\* A note with the largest d, v and st of their chunks came back from its
\* bytes.
C25_Witness ==
    \E i \in Called("deserialize") :
        /\ native[i].note.d = 255
        /\ native[i].note.v = 255
        /\ native[i].note.st = 255
        /\ native[i].note.pk_d = FrModulus - 1
        /\ native[i].out.note = <<native[i].note>>

(***************************************************************************)
(* C26.  Note encryption round trip: for every note n whose pk_d is        *)
(* derived from (n.d, recipient_dk), every ephemeral scalar esk and every  *)
(* sender dk, note_encrypt returns a message, note_decrypt_out with the    *)
(* sender's dk returns Some(n) and note_decrypt_in with the recipient's dk *)
(* returns Some(n).                                                        *)
(***************************************************************************)
C26_EncryptionRoundTrip ==
    /\ \A i \in Called("note_encrypt") : ~native[i].out.panic
    /\ \A i \in Called("note_decrypt_in") :
          native[i].out = <<native[i].arg.note>>
    /\ \A i \in Called("note_decrypt_out") :
          native[i].out = <<native[i].arg.note>>

(***************************************************************************)
(* C26, amended.  The same for every note n that fits its chunk widths     *)
(* and every sender dk other than zero.                                    *)
(***************************************************************************)
C26_EncodableNoteRoundTrip ==
    /\ \A i \in Called("note_encrypt") :
          (Encodable(native[i].arg.note) /\ native[i].arg.dk # 0)
              => ~native[i].out.panic
    /\ \A i \in Called("note_decrypt_in") :
          native[i].out = <<native[i].arg.note>>
    /\ \A i \in Called("note_decrypt_out") :
          native[i].out = <<native[i].arg.note>>

\* The sender recovered a note sent to another key.
C26_Witness ==
    \E i \in Called("note_decrypt_out") :
        /\ native[i].arg.dk # native[i].arg.r_dk
        /\ native[i].arg.esk > 1
        /\ native[i].arg.r_dk > 1
        /\ native[i].arg.note.v = 255
        /\ native[i].out = <<native[i].arg.note>>

(***************************************************************************)
(* C29.  prepare_delta and parse_delta are inverse on everything           *)
(* prepare_delta accepts: for every signed integer delta for which         *)
(* prepare_delta does not abort, parse_delta of the prepared word does not *)
(* abort and is delta (as a field element).                                *)
(***************************************************************************)
C29_PrepareParseInverse ==
    \A i \in Called("prepare_delta") :
        ~native[i].out.panic =>
            /\ ~parse_delta(native[i].out.value).panic
            /\ parse_delta(native[i].out.value).value
                  = ToField(native[i].arg)

(***************************************************************************)
(* C27.  The checks of transfer_and_update_root run in the order 1..9 and  *)
(* the panic message is that of the first check in this order whose        *)
(* condition the call does not meet; the call returns true when it meets   *)
(* all nine.  A resubmission of an accepted transaction is rejected for a  *)
(* nullifier already in history, and no outcome of a proof verification    *)
(* is reported when one of the checks 1..7 fails.                          *)
(***************************************************************************)
FirstFailed == CHOOSE k \in last_failed : \A j \in last_failed : k <= j

VerifierOutcomes ==
    {"Wrong input len.", "wrong transfer snark check",
     "wrong update root snark check"}

C27_FirstFailingCheckDecides ==
    pc = "returned" =>
        /\ result = IF last_failed = {} THEN "ok"
                    ELSE check_message(FirstFailed)
        /\ last_replay => result = "not unique nullifier in history"
        /\ last_failed \cap (1..7) # {} => result \notin VerifierOutcomes

\* A resubmission whose before_root is stale as well, and a call that
\* fails a state check and would fail a proof check too.
C27_Witness ==
    /\ pc = "returned"
    /\ last_replay
    /\ {3, 7} \subseteq last_failed
    /\ last_failed \cap {8, 9} # {}
    /\ result = "not unique nullifier in history"

(***************************************************************************)
(* C28.  For more than IN owned notes and every amount and delta that pass *)
(* the insufficient-funds check, the downsizing loop of                    *)
(* make_transaction_object completes without aborting: the chosen inputs   *)
(* are pairwise distinct positions of the note list, and the spending      *)
(* amount is the value sum of the chosen notes plus delta and is at least  *)
(* amount.                                                                 *)
(***************************************************************************)
PassedFundsCheck(r) ==
    /\ TopSum + r.args.delta >= 0
    /\ TopSum + r.args.delta >= r.args.amount

SelectedSum(r) ==
    SumSeq([k \in 1..Len(r.selected) |-> r.selected[k].note.v])

DownsizingInvariant(r) ==
    /\ \A j, k \in 1..Len(r.selected) :
          j # k => r.selected[j].pos # r.selected[k].pos
    /\ \A k \in 1..Len(r.selected) : r.selected[k].pos \in NotePositions
    /\ r.transfer_sec.tx.output[1].v + r.args.amount
          = SelectedSum(r) + r.args.delta
    /\ SelectedSum(r) + r.args.delta >= r.args.amount

C28_DownsizingCompletes ==
    \A r \in Returned :
        (Cardinality(NotePositions) > P_IN /\ PassedFundsCheck(r)) =>
            /\ r.outcome = "some"
            /\ DownsizingInvariant(r)

(***************************************************************************)
(* C30.  make_transaction_object never writes to the client's store:       *)
(* num_leaves, every tree cell and the stored notes are the same after the *)
(* call as before it, whether it returns a result or none, so the notes it *)
(* used as inputs stay in get_note_list and total_balance; and             *)
(* get_note_list always returns exactly the notes given to add_leaf, each  *)
(* at the leaf position at which it was added.                             *)
(***************************************************************************)
NoteListSet == { get_note_list[i] : i \in 1..Len(get_note_list) }

NoteListExact ==
    /\ NoteListSet
          = { [pos |-> q, note |-> leaves[q + 1].note[1]] :
                q \in NotePositions }
    /\ Len(get_note_list) = Cardinality(NotePositions)
    /\ total_balance = SumOwned(NotePositions)

BuilderCall == frame.at = "idle" /\ frame'.at = "returned"

\* The three columns of the store: num_leaves, the cells and the notes.
BuilderLeavesStore ==
    BuilderCall =>
        /\ db'[COL_DEFAULT] = db[COL_DEFAULT]
        /\ db'[COL_CELL] = db[COL_CELL]
        /\ db'[COL_NOTE] = db[COL_NOTE]

InputsStayListed ==
    \A r \in Returned :
        r.outcome = "some" =>
            \A k \in 1..Len(r.selected) : r.selected[k] \in NoteListSet

C30_BuilderLeavesStore ==
    [](NoteListExact /\ InputsStayListed) /\ [][BuilderLeavesStore]_vars

\* A call has returned a result that spends two owned notes, a third note
\* is owned, and all three are in the note list.
C30_Witness ==
    /\ frame.at = "returned"
    /\ \E r \in Returned :
          /\ r.outcome = "some"
          /\ Len(r.selected) = P_IN
          /\ \A k \in 1..Len(r.selected) : r.selected[k] \in NoteListSet
    /\ Cardinality(NotePositions) > P_IN
    /\ Len(get_note_list) = Cardinality(NotePositions)
    /\ total_balance = SumOwned(NotePositions)
    /\ total_balance > 0

====
